---- MODULE Spec2Model ----
(***************************************************************************)
(* The multi-room quiz orchestration engine of src/main.py: the waiting    *)
(* rooms, the countdown, the question / answer / reveal loop and the       *)
(* leaderboard, as the coroutines of one asyncio event loop.               *)
(*                                                                         *)
(* A coroutine runs atomically from one await to the next; at an await any *)
(* other coroutine may run.  A suspended coroutine is a frame in `tasks`:  *)
(* its position (pc) and its local variables.  An action resumes one frame *)
(* (or admits one incoming update) and runs it to its next await.          *)
(* Consecutive awaits with no access to shared state between them are one  *)
(* suspension point.  `hist` records, for each room object, what the      *)
(* transport was asked to show for it and what became of it.              *)
(***************************************************************************)
EXTENDS Integers, Sequences, FiniteSets, TLC

\* ------------------------------------------------------------ bounds
NumUsers == 3
MaxStarts == 2
MaxQuestions == 2
MaxAnimeQuestions == 3
MaxTasks == 2
MaxAnswers == 26
MaxScore == 5

\* ------------------------------------------------- program constants
Quorum == 2
CountdownFrom == 5
AnnouncedFrom == 5
QuickQuizLen == 3
AnimeQuizLen == 5
MilestoneA == 5
MilestoneB == 10
MilestoneC == 25
LeaderboardSize == 10

Users == 1..NumUsers
Chats == {1, 2}
MainChats == {1}
RoomIds == 1..MaxStarts
None == 0

Min(a, b) == IF a < b THEN a ELSE b

\* The quizzes of the database (DatabaseService.get_quiz): quiz id -> the
\* correct option index of each question.
QuizDB == 1 :> <<1, 2>>
QuizIds == DOMAIN QuizDB
QuizCreator == 1

\* quickquiz's sample questions (their "answer" fields) and the draws of
\* random.sample considered, cut to the model's quiz length.
SampleAnswers == <<1, 1, 1, 2, 3>>
QuickDraws == {<<1, 4, 5>>, <<5, 2, 3>>}
QuickQuestions(draw) ==
    [i \in 1..Min(Min(QuickQuizLen, Len(SampleAnswers)), MaxQuestions) |-> SampleAnswers[draw[i]]]
\* dailychallenge's fixed questions.
DailyAnswers == <<1, 1, 1>>
DailyQuestions == [i \in 1..Min(Len(DailyAnswers), MaxQuestions) |-> DailyAnswers[i]]

\* get_random_anime_questions(count) of anime_quiz_data: count questions drawn
\* at random; a draw is named by a number and gives the questions' correct
\* option indexes, cut to the model's anime quiz length.
AnimeDraws == {0, 1}
get_random_anime_questions(count, draw) ==
    [i \in 1..Min(count, MaxAnimeQuestions) |-> (draw + i) % 4]

\* generate_quiz_id(): a time-derived id; the model gives each request its own.
generate_quiz_id(rid) == 100 + rid

Options == 0..3
QIdx == 0..(MaxQuestions - 1)

VARIABLES
    waiting_rooms,    \* chat -> room id, or None when the chat is not a key
    active_quizzes,   \* chat -> session id, or None when the chat is not a key
    countdown_jobs,   \* the set of chats that are keys of countdown_jobs
    rooms,            \* the room / quiz dict objects, by object id
    user_stats,       \* user -> statistics record
    streak_data,      \* user -> streak record
    tasks,            \* the suspended coroutines
    next_id,          \* the next room object id
    hist              \* history: what happened to each room object and user

vars == <<waiting_rooms, active_quizzes, countdown_jobs, rooms, user_stats,
          streak_data, tasks, next_id, hist>>

\* ------------------------------------------------------------ helpers
Frame(kind, pc, c, u, r, qid, q, count, n) ==
    [kind |-> kind, pc |-> pc, chat |-> c, user |-> u, room |-> r,
     qid |-> qid, q |-> q, count |-> count, n |-> n, msg |-> 0]

\* dict.get(key, default) on a dict modelled as a function
Get(d, k, default) == IF k \in DOMAIN d THEN d[k] ELSE default

\* d[k] = v on a dict modelled as a function
Set(d, k, v) == [x \in DOMAIN d \cup {k} |-> IF x = k THEN v ELSE d[x]]

EmptyDict == [x \in {} |-> 0]

\* The dict literal stored in waiting_rooms by every quiz-start handler.
NewRoom(quiz_id, questions, creator, message_id) ==
    [quiz_id |-> quiz_id, ready_users |-> {}, scores |-> EmptyDict,
     answered |-> EmptyDict, questions |-> questions, creator |-> creator,
     message_id |-> message_id, current_q |-> 0, started |-> FALSE,
     message_ids |-> <<>>]

NoStats == [state |-> "absent", questions_answered |-> 0, correct_answers |-> 0,
            total_score |-> 0, best_streak |-> 0, achievements |-> <<>>]
NoStreak == [present |-> FALSE, current |-> 0, best |-> 0]

\* What is remembered of a quiz-start request and of the room object it made:
\* the handler and chat, the requests it raced with, how it ended, the
\* countdowns started for the room, the "starting in N" edits requested
\* for it, the answers recorded, the questions sent and revealed, the
\* participants of its leaderboard, those whose name was found for the
\* ranking and for the statistics, the ranking sent, the users for whom
\* a statistics update and a game-session record went to the database, and
\* the increments each statistics update carried.
NoHist == [origin |-> "", chat |-> 0, raced |-> {}, result |-> "pending",
           cd_starts |-> 0, notified |-> <<>>, accepted |-> {}, sent |-> <<>>,
           revealed |-> <<>>, board |-> {}, named |-> {}, known |-> {},
           ranking |-> <<>>, emitted |-> FALSE, stats |-> {}, sessions |-> {},
           persisted |-> <<>>]

\* What is remembered of a user's accepted answers (those that passed the
\* session and ledger checks of answer_handler): how many there were, and how
\* many of the latest were correct in a row.  The history keeps it under
\* the key LogKey(u), apart from the room object ids.
NoLog == [answers |-> 0, run |-> 0]
LogKey(u) == 0 - u
Logged(h, u, is_correct) ==
    [h EXCEPT ![LogKey(u)] = [answers |-> @.answers + 1,
                              run |-> IF is_correct THEN @.run + 1 ELSE 0]]

\* The start requests of a handler still waiting for their prompt in chat c.
Pending(kind, c) == {f.room : f \in {g \in tasks : g.kind = kind /\ g.chat = c}}

Arrived(h, kind, c) == [h EXCEPT !.origin = kind, !.chat = c, !.raced = Pending(kind, c)]

Init ==
    /\ waiting_rooms = [c \in Chats |-> None]
    /\ active_quizzes = [c \in Chats |-> None]
    /\ countdown_jobs = {}
    /\ rooms = [r \in {} |-> 0]
    /\ user_stats = [u \in Users |-> NoStats]
    /\ streak_data = [u \in Users |-> NoStreak]
    /\ tasks = {}
    /\ next_id = 1
    /\ hist = [r \in RoomIds |-> NoHist] @@ [k \in {LogKey(u) : u \in Users} |-> NoLog]

\* ------------------------------------------------ quiz-start handlers
\* An update is admitted while fewer than MaxTasks coroutines are suspended.
CanAdmit == Cardinality(tasks) < MaxTasks

\* The admission check of start_quiz_in_group.
AlreadyActive(c) == active_quizzes[c] # None \/ waiting_rooms[c] # None

\* start_quiz_in_group up to its first await: the admission check, then the
\* prompt message is sent (the room is stored only when the send returns).
start_quiz_in_group(c, quiz_id) ==
    /\ CanAdmit
    /\ next_id <= MaxStarts
    /\ quiz_id \in QuizIds
    /\ next_id' = next_id + 1
    /\ IF AlreadyActive(c)
       THEN /\ hist' = [hist EXCEPT ![next_id] =
                        [Arrived(@, "start_quiz_in_group", c) EXCEPT !.result = "rejected"]]
            /\ UNCHANGED tasks
       ELSE /\ tasks' = tasks \cup
                 {Frame("start_quiz_in_group", "send_message", c, QuizCreator,
                        next_id, quiz_id, 0, 0, 0)}
            /\ hist' = [hist EXCEPT ![next_id] = Arrived(@, "start_quiz_in_group", c)]
    /\ UNCHANGED <<waiting_rooms, active_quizzes, countdown_jobs, rooms,
                   user_stats, streak_data>>

\* waiting_rooms[chat_id] = {...}: the assignment every start handler ends with.
StoreRoom(c, r, room) ==
    /\ waiting_rooms' = [waiting_rooms EXCEPT ![c] = r]
    /\ rooms' = (r :> room) @@ rooms
    /\ hist' = [hist EXCEPT ![r].result = "accepted"]

\* start_quiz_in_group after send_message returned (ok) or raised.
start_quiz_in_group_resume(f, ok) ==
    /\ f \in tasks
    /\ f.kind = "start_quiz_in_group"
    /\ tasks' = tasks \ {f}
    /\ IF ok
       THEN StoreRoom(f.chat, f.room,
                      NewRoom(f.qid, QuizDB[f.qid], f.user, f.room))
       ELSE /\ hist' = [hist EXCEPT ![f.room].result = "failed"]
            /\ UNCHANGED <<waiting_rooms, rooms>>
    /\ UNCHANGED <<active_quizzes, countdown_jobs, user_stats, streak_data, next_id>>

\* quickquiz up to its await: no admission check, the prompt is sent.
quickquiz(c, u, draw) ==
    /\ CanAdmit
    /\ next_id <= MaxStarts
    /\ next_id' = next_id + 1
    /\ tasks' = tasks \cup
         {Frame("quickquiz", "reply_text", c, u, next_id, generate_quiz_id(next_id),
                draw[1], 0, 0)}
    /\ hist' = [hist EXCEPT ![next_id] = Arrived(@, "quickquiz", c)]
    /\ UNCHANGED <<waiting_rooms, active_quizzes, countdown_jobs, rooms,
                   user_stats, streak_data>>

\* The draw a quickquiz frame carries (its first index names it).
DrawOf(f) == CHOOSE d \in QuickDraws : d[1] = f.q

quickquiz_resume(f, ok) ==
    /\ f \in tasks
    /\ f.kind = "quickquiz"
    /\ tasks' = tasks \ {f}
    /\ IF ok
       THEN StoreRoom(f.chat, f.room,
                      NewRoom(f.qid, QuickQuestions(DrawOf(f)), f.user, f.room))
       ELSE /\ hist' = [hist EXCEPT ![f.room].result = "failed"]
            /\ UNCHANGED <<waiting_rooms, rooms>>
    /\ UNCHANGED <<active_quizzes, countdown_jobs, user_stats, streak_data, next_id>>

\* dailychallenge up to its await: user_stats[user_id] = {"daily_completed": []}
\* for a user with no statistics yet, then the prompt is sent.
dailychallenge(c, u) ==
    /\ CanAdmit
    /\ next_id <= MaxStarts
    /\ next_id' = next_id + 1
    /\ user_stats' = IF user_stats[u].state = "absent"
                     THEN [user_stats EXCEPT ![u].state = "daily"]
                     ELSE user_stats
    /\ tasks' = tasks \cup
         {Frame("dailychallenge", "reply_text", c, u, next_id,
                generate_quiz_id(next_id), 0, 0, 0)}
    /\ hist' = [hist EXCEPT ![next_id] = Arrived(@, "dailychallenge", c)]
    /\ UNCHANGED <<waiting_rooms, active_quizzes, countdown_jobs, rooms,
                   streak_data>>

dailychallenge_resume(f, ok) ==
    /\ f \in tasks
    /\ f.kind = "dailychallenge"
    /\ tasks' = tasks \ {f}
    /\ IF ok
       THEN StoreRoom(f.chat, f.room,
                      NewRoom(f.qid, DailyQuestions, f.user, f.room))
       ELSE /\ hist' = [hist EXCEPT ![f.room].result = "failed"]
            /\ UNCHANGED <<waiting_rooms, rooms>>
    /\ UNCHANGED <<active_quizzes, countdown_jobs, user_stats, streak_data, next_id>>

\* animequiz up to its await: no admission check, the prompt is sent.
animequiz(c, u, draw) ==
    /\ CanAdmit
    /\ next_id <= MaxStarts
    /\ next_id' = next_id + 1
    /\ tasks' = tasks \cup
         {Frame("animequiz", "reply_text", c, u, next_id, generate_quiz_id(next_id),
                draw, 0, 0)}
    /\ hist' = [hist EXCEPT ![next_id] = Arrived(@, "animequiz", c)]
    /\ UNCHANGED <<waiting_rooms, active_quizzes, countdown_jobs, rooms,
                   user_stats, streak_data>>

\* animequiz after reply_text returned (ok) or raised.
animequiz_resume(f, ok) ==
    /\ f \in tasks
    /\ f.kind = "animequiz"
    /\ tasks' = tasks \ {f}
    /\ IF ok
       THEN StoreRoom(f.chat, f.room,
                      NewRoom(f.qid, get_random_anime_questions(AnimeQuizLen, f.q),
                              f.user, f.room))
       ELSE /\ hist' = [hist EXCEPT ![f.room].result = "failed"]
            /\ UNCHANGED <<waiting_rooms, rooms>>
    /\ UNCHANGED <<active_quizzes, countdown_jobs, user_stats, streak_data, next_id>>

\* ------------------------------------------------------ ready_handler
AllQuizIds == QuizIds \cup {generate_quiz_id(r) : r \in RoomIds}

\* ready_handler checking only that the chat has a waiting room, not which.
ReadyStaleAnyQuiz(c, quiz_id) == waiting_rooms[c] = None /\ quiz_id \in AllQuizIds

\* The "quiz not active anymore" check of ready_handler.
ReadyStale(c, quiz_id) ==
    waiting_rooms[c] = None \/ rooms[waiting_rooms[c]].quiz_id # quiz_id

\* ready_handler without its "already ready" check.
NeverAlreadyReady(room, u) == u \notin Users

\* The "already ready" check of ready_handler.
AlreadyReady(room, u) == u \in room.ready_users

\* room["ready_users"].add(user_id); room["scores"][user_id] = room["scores"].get(user_id, 0)
MarkReady(room, u) ==
    [room EXCEPT !.ready_users = @ \cup {u},
                 !.scores = Set(@, u, Get(@, u, 0))]

\* The guard under which ready_handler starts the countdown.
CountdownDue(count, c) == count >= Quorum /\ c \notin countdown_jobs

\* ready_handler from the update (its first query.answer() having returned)
\* to the await of the ready-count edit.
ready_handler(c, u, quiz_id) ==
    /\ CanAdmit
    /\ IF ReadyStale(c, quiz_id)
       THEN /\ UNCHANGED <<rooms, tasks>>
       ELSE LET r == waiting_rooms[c] IN
            IF AlreadyReady(rooms[r], u)
            THEN /\ UNCHANGED <<rooms, tasks>>
            ELSE LET room == MarkReady(rooms[r], u)
                     count == Cardinality(room.ready_users) IN
                 /\ rooms' = [rooms EXCEPT ![r] = room]
                 /\ tasks' = tasks \cup
                      {Frame("ready_handler", "edit_message_text", c, u, r,
                             quiz_id, 0, count, 0)}
    /\ UNCHANGED <<waiting_rooms, active_quizzes, countdown_jobs, user_stats,
                   streak_data, next_id, hist>>

\* ready_handler after the edit (its failure is logged) and the second
\* query.answer (ok, or it raised and the handler ends): the countdown start.
ready_handler_resume(f, ok) ==
    /\ f \in tasks
    /\ f.kind = "ready_handler"
    /\ IF ok /\ CountdownDue(f.count, f.chat)
       THEN /\ countdown_jobs' = countdown_jobs \cup {f.chat}
            /\ tasks' = (tasks \ {f}) \cup
                 {Frame("start_countdown", "start", f.chat, 0, 0, 0, 0, 0, 0)}
            /\ hist' = [hist EXCEPT ![f.room].cd_starts = @ + 1]
       ELSE /\ tasks' = tasks \ {f}
            /\ UNCHANGED <<countdown_jobs, hist>>
    /\ UNCHANGED <<waiting_rooms, active_quizzes, rooms, user_stats,
                   streak_data, next_id>>

\* ---------------------------------------------------- start_countdown
\* start_countdown without its finally block: the marker stays.
KeepCountdownJob(c) == UNCHANGED countdown_jobs
\* The finally block of start_countdown emptying the whole dict.
ClearEveryCountdownJob(c) == countdown_jobs' = {}

\* The finally block of start_countdown.
ClearCountdownJob(c) == countdown_jobs' = countdown_jobs \ {c}

\* edit_message_text("... Starting quiz in i...") on the room's prompt; the
\* request is made whether or not the transport then fails.
Announce(h, i) == [h EXCEPT !.notified = Append(@, i)]

\* start_countdown from its start to the sleep of the first loop round: the
\* "starting in 5" edit, then the first edit of the loop.
start_countdown(f) ==
    /\ f \in tasks
    /\ f.kind = "start_countdown" /\ f.pc = "start"
    /\ IF waiting_rooms[f.chat] = None
       THEN /\ ClearCountdownJob(f.chat)
            /\ tasks' = tasks \ {f}
            /\ UNCHANGED hist
       ELSE LET r == waiting_rooms[f.chat]
                count == Cardinality(rooms[r].ready_users) IN
            /\ tasks' = (tasks \ {f}) \cup
                 {[f EXCEPT !.pc = "sleep", !.room = r, !.count = count,
                            !.n = CountdownFrom]}
            /\ hist' = [hist EXCEPT ![r] =
                          Announce(Announce(@, AnnouncedFrom), CountdownFrom)]
            /\ UNCHANGED countdown_jobs
    /\ UNCHANGED <<waiting_rooms, active_quizzes, rooms, user_stats,
                   streak_data, next_id>>

\* One more round of the loop: the next "starting in i" edit and its sleep.
start_countdown_tick(f) ==
    /\ f \in tasks
    /\ f.kind = "start_countdown" /\ f.pc = "sleep" /\ f.n > 1
    /\ tasks' = (tasks \ {f}) \cup {[f EXCEPT !.n = @ - 1]}
    /\ hist' = [hist EXCEPT ![f.room] = Announce(@, f.n - 1)]
    /\ UNCHANGED <<waiting_rooms, active_quizzes, countdown_jobs, rooms,
                   user_stats, streak_data, next_id>>

\* start_quiz building the running quiz from scratch instead of from the room.
FreshQuiz(room) ==
    [room EXCEPT !.started = TRUE, !.ready_users = {}, !.scores = EmptyDict]

\* active_quizzes[chat_id] = {**room, "current_q": 0, "started": True, "message_ids": []}
StartedQuiz(room) ==
    [room EXCEPT !.current_q = 0, !.started = TRUE, !.message_ids = <<>>]

\* The last sleep is over: start_quiz up to the await of its messages.
start_quiz(f) ==
    /\ f \in tasks
    /\ f.kind = "start_countdown" /\ f.pc = "sleep" /\ f.n = 1
    /\ IF waiting_rooms[f.chat] = None
       THEN /\ ClearCountdownJob(f.chat)
            /\ tasks' = tasks \ {f}
            /\ UNCHANGED <<waiting_rooms, active_quizzes, rooms>>
       ELSE LET r == waiting_rooms[f.chat] IN
            /\ active_quizzes' = [active_quizzes EXCEPT ![f.chat] = r]
            /\ rooms' = [rooms EXCEPT ![r] = StartedQuiz(@)]
            /\ waiting_rooms' = [waiting_rooms EXCEPT ![f.chat] = None]
            /\ tasks' = (tasks \ {f}) \cup
                 {[f EXCEPT !.pc = "start_quiz_send", !.room = r, !.n = 0]}
            /\ UNCHANGED countdown_jobs
    /\ UNCHANGED <<user_stats, streak_data, next_id, hist>>

\* ------------------------------------------------------ send_question
\* A question message reference: the quiz object and the position in its
\* message_ids.
MsgId(s, k) == 10 * s + k

\* send_question up to the await of its send_message, in the coroutine f.
\* Gives the frame the coroutine is suspended in, or nothing to wait for.
SendQuestion(f, c) ==
    IF active_quizzes[c] = None
    THEN /\ tasks' = tasks \ {f}
    ELSE LET s == active_quizzes[c]
             q_idx == rooms'[s].current_q IN
         /\ tasks' = (tasks \ {f}) \cup
              {[f EXCEPT !.pc = "send_question", !.room = s, !.q = q_idx]}

\* send_question after send_message returned: the message id is stored and
\* the reveal task is created.
SendQuestionDone(f) ==
    LET s == f.room
        msg == MsgId(s, Len(rooms[s].message_ids) + 1) IN
    /\ rooms' = [rooms EXCEPT ![s].message_ids = Append(@, msg)]
    /\ hist' = [hist EXCEPT ![s].sent = Append(@, f.q)]
    /\ tasks' = (tasks \ {f}) \cup
         {[Frame("reveal_answer", "sleep", f.chat, 0, 0, 0, f.q, 0, 0)
             EXCEPT !.msg = msg]}

\* start_quiz after its messages (the delete may fail; the send raised or
\* returned): send_question is called.
start_quiz_resume(f, ok) ==
    /\ f \in tasks
    /\ f.kind = "start_countdown" /\ f.pc = "start_quiz_send"
    /\ rooms' = rooms
    /\ IF ok
       THEN /\ SendQuestion(f, f.chat)
            /\ IF active_quizzes[f.chat] = None
               THEN ClearCountdownJob(f.chat)
               ELSE UNCHANGED countdown_jobs
       ELSE /\ tasks' = tasks \ {f}
            /\ ClearCountdownJob(f.chat)
    /\ UNCHANGED <<waiting_rooms, active_quizzes, user_stats, streak_data,
                   next_id, hist>>

\* The first question's send_message returned or raised; either way
\* start_countdown ends and its finally block runs.
start_quiz_question_resume(f, ok) ==
    /\ f \in tasks
    /\ f.kind = "start_countdown" /\ f.pc = "send_question"
    /\ ClearCountdownJob(f.chat)
    /\ IF ok
       THEN SendQuestionDone(f)
       ELSE /\ tasks' = tasks \ {f}
            /\ UNCHANGED <<rooms, hist>>
    /\ UNCHANGED <<waiting_rooms, active_quizzes, user_stats, streak_data, next_id>>

\* ------------------------------------------------------ reveal_answer
\* reveal_answer without its index check: every reveal counts as current.
RevealAnyIndex(quiz, q_idx) == q_idx \in QIdx

\* The staleness check of reveal_answer: the reveal is for the current question.
RevealCurrent(quiz, q_idx) == quiz.current_q = q_idx

\* reveal_answer_after_delay: the 20 s sleep is over; reveal_answer up to
\* the await of the edit that shows the correct option.
reveal_answer(f) ==
    /\ f \in tasks
    /\ f.kind = "reveal_answer" /\ f.pc = "sleep"
    /\ IF active_quizzes[f.chat] # None
          /\ RevealCurrent(rooms[active_quizzes[f.chat]], f.q)
       THEN LET s == active_quizzes[f.chat] IN
            /\ tasks' = (tasks \ {f}) \cup
                 {[f EXCEPT !.pc = "edit_message_text", !.room = s]}
            /\ hist' = [hist EXCEPT ![s].revealed = Append(@, f.q)]
       ELSE /\ tasks' = tasks \ {f}
            /\ UNCHANGED hist
    /\ UNCHANGED <<waiting_rooms, active_quizzes, countdown_jobs, rooms,
                   user_stats, streak_data, next_id>>

\* The participants of show_leaderboard: the union of the sets in quiz["answered"].
Participants(quiz) ==
    UNION {quiz.answered[q] : q \in DOMAIN quiz.answered}

\* show_leaderboard up to its first get_chat: the quiz is popped and its
\* participants are collected.
ShowLeaderboard(f, c) ==
    IF active_quizzes[c] = None
    THEN /\ tasks' = tasks \ {f}
         /\ UNCHANGED <<active_quizzes, hist>>
    ELSE LET s == active_quizzes[c] IN
         /\ active_quizzes' = [active_quizzes EXCEPT ![c] = None]
         /\ hist' = [hist EXCEPT ![s].result = "completed",
                                 ![s].board = Participants(rooms[s])]
         /\ tasks' = (tasks \ {f}) \cup
              {[f EXCEPT !.kind = "show_leaderboard", !.pc = "get_chat", !.room = s]}

\* quiz["answered"] = {}
ClearAnswered(quiz) == [quiz EXCEPT !.answered = EmptyDict]

\* reveal_answer after the edit (its failure is logged): the next question is
\* announced, or the leaderboard is shown.
reveal_answer_resume(f) ==
    /\ f \in tasks
    /\ f.kind = "reveal_answer" /\ f.pc = "edit_message_text"
    /\ IF f.q + 1 < Len(rooms[f.room].questions)
       THEN /\ rooms' = [rooms EXCEPT ![f.room] = ClearAnswered(@)]
            /\ tasks' = (tasks \ {f}) \cup {[f EXCEPT !.pc = "pause"]}
            /\ UNCHANGED <<active_quizzes, hist>>
       ELSE /\ ShowLeaderboard(f, f.chat)
            /\ UNCHANGED rooms
    /\ UNCHANGED <<waiting_rooms, countdown_jobs, user_stats, streak_data, next_id>>

\* quiz["current_q"] = q_idx + 1
Advance(quiz, q_idx) == [quiz EXCEPT !.current_q = q_idx + 1]

\* The 3 s pause is over (and the notice deleted): the quiz object the
\* coroutine holds advances, and send_question is called for the chat.
reveal_answer_next(f) ==
    /\ f \in tasks
    /\ f.kind = "reveal_answer" /\ f.pc = "pause"
    /\ rooms' = [rooms EXCEPT ![f.room] = Advance(@, f.q)]
    /\ SendQuestion(f, f.chat)
    /\ UNCHANGED <<waiting_rooms, active_quizzes, countdown_jobs, user_stats,
                   streak_data, next_id, hist>>

\* The next question's send_message returned, or raised (reveal_answer logs it).
reveal_answer_question_resume(f, ok) ==
    /\ f \in tasks
    /\ f.kind = "reveal_answer" /\ f.pc = "send_question"
    /\ IF ok
       THEN SendQuestionDone(f)
       ELSE /\ tasks' = tasks \ {f}
            /\ UNCHANGED <<rooms, hist>>
    /\ UNCHANGED <<waiting_rooms, active_quizzes, countdown_jobs, user_stats,
                   streak_data, next_id>>

\* The orders in which a set can be iterated.
Orders(S) ==
    {p \in [1..Cardinality(S) -> S] : \A i, j \in 1..Cardinality(S) : p[i] = p[j] => i = j}

\* The list built by the first loop of show_leaderboard: a (user, score) row
\* for each participant, in iteration order, whose get_chat returned; a
\* participant whose get_chat raised is skipped (continue).
RECURSIVE ScoreRows(_, _, _)
ScoreRows(order, named, quiz) ==
    IF order = <<>> THEN <<>>
    ELSE LET user_id == Head(order)
             rest == ScoreRows(Tail(order), named, quiz) IN
         IF user_id \in named
         THEN <<<<user_id, Get(quiz.scores, user_id, 0)>>>> \o rest
         ELSE rest

\* The rows left in the order of the first loop.
Unsorted(rows) == rows

\* scores.sort(key=lambda x: x[1], reverse=True): a stable sort, rows of
\* equal score keep their order.
InsertRow(sorted, row) ==
    LET k == Cardinality({i \in 1..Len(sorted) : sorted[i][2] >= row[2]}) IN
    SubSeq(sorted, 1, k) \o <<row>> \o SubSeq(sorted, k + 1, Len(sorted))
RECURSIVE SortDescending(_)
SortDescending(rows) ==
    IF rows = <<>> THEN <<>>
    ELSE InsertRow(SortDescending(SubSeq(rows, 1, Len(rows) - 1)), rows[Len(rows)])

\* scores[:10]
TopRows(rows) == SubSeq(rows, 1, Min(LeaderboardSize, Len(rows)))

\* The second loop of show_leaderboard, for the participants whose get_chat
\* returned: update_user_stats is called; the arguments of
\* record_game_session include quiz["id"], which raises KeyError for a quiz
\* object without that key, and the except clause goes on to the next user.
StatsUpdates(quiz, known) == known
\* correct_count of the second loop: the question indexes whose entry of
\* quiz["answered"] holds the user, counted when the user's score is positive.
CorrectCount(quiz, user_id) ==
    Cardinality({q_idx \in 0..(Len(quiz.questions) - 1) :
                    /\ user_id \in Get(quiz.answered, q_idx, {})
                    /\ Get(quiz.scores, user_id, 0) > 0})
\* The increments passed to update_user_stats for a user.
UpdateArgs(quiz, user_id) ==
    [questions_answered |-> Len(quiz.questions),
     correct_answers |-> CorrectCount(quiz, user_id),
     total_score |-> Get(quiz.scores, user_id, 0)]
Persisted(quiz, known) == [user_id \in known |-> UpdateArgs(quiz, user_id)]
GameSessions(quiz, known) == IF "id" \in DOMAIN quiz THEN known ELSE {}

\* The participants whose get_chat returns, each call having an outcome of O.
Lookups(participants, O) ==
    {S \in SUBSET participants : /\ S # participants => FALSE \in O
                                 /\ S # {} => TRUE \in O}

\* show_leaderboard without the try around the first loop's get_chat: a
\* lookup that raises ends the coroutine, nothing is sent.
show_leaderboard_unguarded(f, O) ==
    /\ f \in tasks
    /\ f.kind = "show_leaderboard"
    /\ tasks' = tasks \ {f}
    /\ LET s == f.room
           quiz == rooms[s]
           participants == hist[s].board IN
       \E order \in Orders(participants), named \in Lookups(participants, O) :
           hist' = IF named # participants
                   THEN [hist EXCEPT ![s].named = named]
                   ELSE [hist EXCEPT
                           ![s].named = named,
                           ![s].known = named,
                           ![s].ranking = TopRows(SortDescending(ScoreRows(order, named, quiz))),
                           ![s].emitted = TRUE,
                           ![s].stats = StatsUpdates(quiz, named),
                           ![s].persisted = Persisted(quiz, named),
                           ![s].sessions = GameSessions(quiz, named)]
    /\ UNCHANGED <<waiting_rooms, active_quizzes, countdown_jobs, rooms,
                   user_stats, streak_data, next_id>>

\* show_leaderboard after the pop: the lookups of both loops return or raise
\* with an outcome of O (named, known: the participants whose lookup
\* returned), the ranking is sorted and sent.  Nothing but the popped quiz object is read in between.
show_leaderboard_resume(f, O) ==
    /\ f \in tasks
    /\ f.kind = "show_leaderboard"
    /\ tasks' = tasks \ {f}
    /\ LET s == f.room
           quiz == rooms[s]
           participants == hist[s].board IN
       \E order \in Orders(participants), named \in Lookups(participants, O),
          known \in Lookups(participants, O) :
           hist' = [hist EXCEPT
                      ![s].named = named,
                      ![s].known = known,
                      ![s].ranking = TopRows(SortDescending(ScoreRows(order, named, quiz))),
                      ![s].emitted = TRUE,
                      ![s].stats = StatsUpdates(quiz, known),
                      ![s].persisted = Persisted(quiz, known),
                      ![s].sessions = GameSessions(quiz, known)]
    /\ UNCHANGED <<waiting_rooms, active_quizzes, countdown_jobs, rooms,
                   user_stats, streak_data, next_id>>

\* ----------------------------------------------------- answer_handler
\* The "already answered" check of answer_handler.
AlreadyAnswered(quiz, u, q_idx) == u \in Get(quiz.answered, q_idx, {})

\* quiz["answered"][q_idx].add(user_id), the set created when absent
RecordAnswer(quiz, u, q_idx) ==
    [quiz EXCEPT !.answered = Set(@, q_idx, Get(@, q_idx, {}) \cup {u})]

\* A correct answer that earns nothing.
NoPoint(quiz, u) == quiz

\* quiz["scores"][user_id] = quiz["scores"].get(user_id, 0) + 1
AddPoint(quiz, u) == [quiz EXCEPT !.scores = Set(@, u, Get(@, u, 0) + 1)]

\* user_stats[user_id] as answer_handler creates it when absent
FullStats == [NoStats EXCEPT !.state = "full"]

Contains(seq, x) == \E i \in 1..Len(seq) : seq[i] = x

\* The achievement checks without the look into the list: a milestone is
\* appended whenever the streak reaches it.
AchievementsRepeated(list, streak) ==
    IF streak \in {MilestoneA, MilestoneB, MilestoneC} THEN Append(list, streak) ELSE list

\* The achievement checks of answer_handler on the streak just incremented.
Achievements(list, streak) ==
    IF streak = MilestoneA /\ ~Contains(list, MilestoneA) THEN Append(list, MilestoneA)
    ELSE IF streak = MilestoneB /\ ~Contains(list, MilestoneB) THEN Append(list, MilestoneB)
    ELSE IF streak = MilestoneC /\ ~Contains(list, MilestoneC) THEN Append(list, MilestoneC)
    ELSE list

\* The statistics and streak updates of answer_handler for a correct answer.
StatsCorrect(st, sd) ==
    LET cur == sd.current + 1
        best == IF cur > sd.best THEN cur ELSE sd.best IN
    [st EXCEPT !.questions_answered = @ + 1, !.correct_answers = @ + 1,
               !.total_score = @ + 1,
               !.best_streak = IF cur > sd.best THEN best ELSE @,
               !.achievements = Achievements(@, cur)]
StreakCorrect(sd) ==
    LET cur == sd.current + 1 IN
    [present |-> TRUE, current |-> cur, best |-> IF cur > sd.best THEN cur ELSE sd.best]

\* The scoring section of answer_handler as a function of the user's two
\* entries and of is_correct: the entry is created when absent; an entry
\* made by dailychallenge has no "questions_answered" key, the first update
\* raises KeyError and nothing is written.
ScoredStats(entry, sd, is_correct) ==
    IF entry.state = "daily" THEN entry
    ELSE LET st == IF entry.state = "absent" THEN FullStats ELSE entry IN
         IF is_correct THEN StatsCorrect(st, sd)
         ELSE [st EXCEPT !.questions_answered = @ + 1]
ScoredStreak(entry, sd, is_correct) ==
    IF entry.state = "daily" THEN sd
    ELSE IF is_correct THEN StreakCorrect(sd)
    ELSE [sd EXCEPT !.current = IF sd.present THEN 0 ELSE @]

\* The question buttons that exist in a chat: the indices of the questions sent there.
Buttons(c) ==
    {q \in QIdx : \E r \in RoomIds : hist[r].chat = c /\ Contains(hist[r].sent, q)}

\* answer_handler creating the user's statistics entry before it looks for
\* the chat's running quiz, and doing nothing else.
answer_handler_stats_first(c, u, q_idx, selected_idx) ==
    /\ q_idx \in Buttons(c)
    /\ selected_idx \in Options
    /\ user_stats' = [user_stats EXCEPT ![u] = FullStats]
    /\ UNCHANGED <<waiting_rooms, active_quizzes, countdown_jobs, rooms,
                   streak_data, tasks, next_id, hist>>

\* answer_handler: everything up to its first await is one step; the
\* acknowledgment and the transient notice that follow change no state.
answer_handler(c, u, q_idx, selected_idx) ==
    /\ q_idx \in Buttons(c)
    /\ UNCHANGED <<waiting_rooms, active_quizzes, countdown_jobs, tasks, next_id>>
    /\ IF active_quizzes[c] = None
       THEN /\ UNCHANGED <<rooms, user_stats, streak_data, hist>>
       ELSE LET s == active_quizzes[c]
                quiz == rooms[s] IN
            IF AlreadyAnswered(quiz, u, q_idx)
            THEN /\ UNCHANGED <<rooms, user_stats, streak_data, hist>>
            ELSE LET recorded == RecordAnswer(quiz, u, q_idx) IN
                 /\ hist' = Logged([hist EXCEPT ![s].accepted = @ \cup {<<u, q_idx>>}], u,
                                   /\ q_idx < Len(quiz.questions)
                                   /\ selected_idx = quiz.questions[q_idx + 1])
                 /\ IF q_idx >= Len(quiz.questions) \/ user_stats[u].state = "daily"
                    THEN \* IndexError on questions[q_idx], or KeyError on
                         \* "questions_answered": the handler ends here
                         /\ rooms' = [rooms EXCEPT ![s] = recorded]
                         /\ UNCHANGED <<user_stats, streak_data>>
                    ELSE LET is_correct == selected_idx = quiz.questions[q_idx + 1]
                             st == IF user_stats[u].state = "absent"
                                   THEN FullStats ELSE user_stats[u]
                             sd == streak_data[u] IN
                         /\ IF is_correct
                            THEN /\ rooms' = [rooms EXCEPT ![s] = AddPoint(recorded, u)]
                                 /\ user_stats' = [user_stats EXCEPT ![u] = StatsCorrect(st, sd)]
                                 /\ streak_data' = [streak_data EXCEPT ![u] = StreakCorrect(sd)]
                            ELSE /\ rooms' = [rooms EXCEPT ![s] = recorded]
                                 /\ user_stats' = [user_stats EXCEPT ![u] =
                                        [st EXCEPT !.questions_answered = @ + 1]]
                                 /\ streak_data' = [streak_data EXCEPT ![u].current =
                                        IF sd.present THEN 0 ELSE @]

\* The scoring section of answer_handler applied for an answer of user u
\* that some running quiz accepted, the quiz itself left out.
score_answer(u, is_correct) ==
    /\ hist[LogKey(u)].answers < MaxAnswers
    /\ user_stats' = [user_stats EXCEPT ![u] = ScoredStats(@, streak_data[u], is_correct)]
    /\ streak_data' = [streak_data EXCEPT ![u] = ScoredStreak(user_stats[u], @, is_correct)]
    /\ hist' = Logged(hist, u, is_correct)
    /\ UNCHANGED <<waiting_rooms, active_quizzes, countdown_jobs, rooms, tasks, next_id>>

\* ------------------------------------------------------ specification
\* The updates that arrive: commands and button presses of the users U in
\* the chats C.
Starts(C, U) ==
    \/ \E c \in C, quiz_id \in QuizIds : start_quiz_in_group(c, quiz_id)
    \/ \E c \in C, u \in U, draw \in QuickDraws : quickquiz(c, u, draw)
    \/ \E c \in C, u \in U : dailychallenge(c, u)

Readies(C, U) ==
    \E c \in C, u \in U, quiz_id \in AllQuizIds : ready_handler(c, u, quiz_id)

Answers(C, U, S) ==
    \E c \in C, u \in U, q \in QIdx, sel \in S : answer_handler(c, u, q, sel)

\* The coroutines that resume; O is the set of outcomes of a transport call
\* whose failure is not caught at the call.
LinkResumes(O) ==
    \E f \in tasks, ok \in O : start_quiz_in_group_resume(f, ok)

CommandResumes(O) ==
    \/ \E f \in tasks, ok \in O : quickquiz_resume(f, ok)
    \/ \E f \in tasks, ok \in O : dailychallenge_resume(f, ok)

Resumes(O) ==
    \/ \E f \in tasks, ok \in O : ready_handler_resume(f, ok)
    \/ \E f \in tasks : start_countdown(f)
    \/ \E f \in tasks : start_countdown_tick(f)
    \/ \E f \in tasks : start_quiz(f)
    \/ \E f \in tasks, ok \in O : start_quiz_resume(f, ok)
    \/ \E f \in tasks, ok \in O : start_quiz_question_resume(f, ok)
    \/ \E f \in tasks : reveal_answer(f)
    \/ \E f \in tasks : reveal_answer_resume(f)
    \/ \E f \in tasks : reveal_answer_next(f)
    \/ \E f \in tasks, ok \in O : reveal_answer_question_resume(f, ok)
    \/ \E f \in tasks : show_leaderboard_resume(f, O)

\* The lobby: every start handler, three users who press ready, no answers.
Next ==
    \/ Starts(MainChats, {1})
    \/ Readies(MainChats, Users)
    \/ LinkResumes(BOOLEAN)
    \/ CommandResumes(BOOLEAN)
    \/ Resumes(BOOLEAN)

Spec == Init /\ [][Next]_vars

\* One quiz started by its link and played by two users.
OneStart == next_id = 1

NextRun ==
    \/ (OneStart /\ \E c \in MainChats, quiz_id \in QuizIds : start_quiz_in_group(c, quiz_id))
    \/ Readies(MainChats, {1, 2})
    \/ Answers(MainChats, {1, 2}, {1, 2})
    \/ LinkResumes(BOOLEAN)
    \/ Resumes(BOOLEAN)

SpecRun == Init /\ [][NextRun]_vars

\* The lobby with every transport call succeeding and every coroutine
\* eventually resumed (timers fire, calls return).
Progress ==
    \/ LinkResumes({TRUE})
    \/ CommandResumes({TRUE})
    \/ Resumes({TRUE})

NextFair ==
    \/ Starts(MainChats, {1})
    \/ Readies(MainChats, {1, 2})
    \/ Progress

SpecFair == Init /\ [][NextFair]_vars /\ WF_vars(Progress)

\* One daily challenge started by user 1 and played by two users.
NextDaily ==
    \/ (OneStart /\ \E c \in MainChats, u \in {1} : dailychallenge(c, u))
    \/ Readies(MainChats, {1, 2})
    \/ Answers(MainChats, {1, 2}, {1, 2})
    \/ \E f \in tasks, ok \in BOOLEAN : dailychallenge_resume(f, ok)
    \/ Resumes(BOOLEAN)

SpecDaily == Init /\ [][NextDaily]_vars

\* A quiz started by its link and /animequiz commands of user 1, in either
\* order, with two users who press ready.
NextAnime ==
    \/ (OneStart /\ \E c \in MainChats, quiz_id \in QuizIds : start_quiz_in_group(c, quiz_id))
    \/ \E c \in MainChats, u \in {1}, draw \in AnimeDraws : animequiz(c, u, draw)
    \/ Readies(MainChats, {1, 2})
    \/ LinkResumes(BOOLEAN)
    \/ \E f \in tasks, ok \in BOOLEAN : animequiz_resume(f, ok)
    \/ Resumes(BOOLEAN)

SpecAnime == Init /\ [][NextAnime]_vars

\* The scoring of user 1's accepted answers, before or after the user's
\* /dailychallenge command.
NextScore ==
    \/ (OneStart /\ \E c \in MainChats, u \in {1} : dailychallenge(c, u))
    \/ \E f \in tasks, ok \in BOOLEAN : dailychallenge_resume(f, ok)
    \/ \E u \in {1}, is_correct \in BOOLEAN : score_answer(u, is_correct)

SpecScore == Init /\ [][NextScore]_vars

\* One quiz played to its end with every call returning and every timer
\* firing: users 1 and 2 press ready; while a question is open (sent, its
\* reveal timer still running) user 1 may press its correct option and user
\* 2 a wrong one.
InWindow(c, q_idx) ==
    /\ active_quizzes[c] # None
    /\ rooms[active_quizzes[c]].current_q = q_idx
    /\ \E f \in tasks : /\ f.kind = "reveal_answer" /\ f.pc = "sleep"
                        /\ f.chat = c /\ f.q = q_idx
CorrectOption(c, q_idx) == rooms[active_quizzes[c]].questions[q_idx + 1]
WrongOption(c, q_idx) == (CorrectOption(c, q_idx) + 1) % 4

NextPlay ==
    \/ (OneStart /\ \E c \in MainChats, quiz_id \in QuizIds : start_quiz_in_group(c, quiz_id))
    \/ Readies(MainChats, {1, 2})
    \/ \E c \in MainChats, q \in QIdx :
          InWindow(c, q) /\ answer_handler(c, 1, q, CorrectOption(c, q))
    \/ \E c \in MainChats, q \in QIdx :
          InWindow(c, q) /\ answer_handler(c, 2, q, WrongOption(c, q))
    \/ LinkResumes({TRUE})
    \/ Resumes({TRUE})

SpecPlay == Init /\ [][NextPlay]_vars /\ WF_vars(LinkResumes({TRUE}) \/ Resumes({TRUE}))

\* Two chats: quizzes started by their links in either chat, two users who
\* press ready, user 1 who answers.
NextChats ==
    \/ \E c \in Chats, quiz_id \in QuizIds : start_quiz_in_group(c, quiz_id)
    \/ Readies(Chats, {1, 2})
    \/ Answers(Chats, {1}, {1})
    \/ LinkResumes(BOOLEAN)
    \/ Resumes(BOOLEAN)

SpecChats == Init /\ [][NextChats]_vars

\* The end of a quiz of MaxScore questions started by its link, which all
\* users joined and answered to the end: the last question's reveal is
\* waiting for its edit, the ledger holds the last question's answers, and
\* each user has any score from 0 to MaxScore (their wrong answers first,
\* the correct ones after).
BoardQuestions == [i \in 1..MaxScore |-> 1]
BoardQuiz(scores) ==
    [NewRoom(1, BoardQuestions, QuizCreator, 1) EXCEPT
        !.ready_users = Users,
        !.scores = scores,
        !.answered = (MaxScore - 1) :> Users,
        !.current_q = MaxScore - 1,
        !.started = TRUE,
        !.message_ids = [i \in 1..MaxScore |-> MsgId(1, i)]]
BoardStats(score) ==
    [FullStats EXCEPT !.questions_answered = MaxScore, !.correct_answers = score,
                      !.total_score = score, !.best_streak = score,
                      !.achievements = Achievements(<<>>, score)]
BoardHist ==
    [NoHist EXCEPT !.origin = "start_quiz_in_group", !.chat = 1, !.result = "accepted",
                   !.cd_starts = 1,
                   !.notified = <<AnnouncedFrom>> \o
                                [i \in 1..CountdownFrom |-> CountdownFrom + 1 - i],
                   !.accepted = Users \X (0..(MaxScore - 1)),
                   !.sent = [i \in 1..MaxScore |-> i - 1],
                   !.revealed = [i \in 1..MaxScore |-> i - 1]]
InitBoard ==
    \E scores \in [Users -> 0..MaxScore] :
        /\ waiting_rooms = [c \in Chats |-> None]
        /\ active_quizzes = [c \in Chats |-> IF c = 1 THEN 1 ELSE None]
        /\ countdown_jobs = {}
        /\ rooms = 1 :> BoardQuiz(scores)
        /\ user_stats = [u \in Users |-> BoardStats(scores[u])]
        /\ streak_data = [u \in Users |->
                            [present |-> scores[u] > 0, current |-> scores[u],
                             best |-> scores[u]]]
        /\ tasks = {[Frame("reveal_answer", "edit_message_text", 1, 0, 1, 0,
                            MaxScore - 1, 0, 0) EXCEPT !.msg = MsgId(1, MaxScore)]}
        /\ next_id = 2
        /\ hist = [r \in RoomIds |-> IF r = 1 THEN BoardHist ELSE NoHist]
                  @@ [k \in {LogKey(u) : u \in Users} |->
                        [answers |-> MaxScore, run |-> scores[-k]]]

NextBoard ==
    \/ \E f \in tasks : reveal_answer_resume(f)
    \/ \E f \in tasks : show_leaderboard_resume(f, BOOLEAN)

SpecBoard == InitBoard /\ [][NextBoard]_vars

\* An idle chat in which a reveal timer of an ended quiz is still pending.
\* The program gets there when /animequiz is sent in a chat whose quiz is
\* at its last question: the room of the command is started over the
\* running quiz while that quiz's last reveal waits for its edit; the reveal
\* then calls show_leaderboard, which pops the new quiz (no user has
\* answered: the leaderboard has no rows), and the timer of the new quiz's
\* first question outlives it.  The ended quiz is room 1 here; the quiz it
\* replaced is referenced by nothing and is left out.
LateQuiz ==
    [NewRoom(generate_quiz_id(1), get_random_anime_questions(AnimeQuizLen, 1), 1, 1)
        EXCEPT !.ready_users = {1, 2},
               !.scores = [u \in {1, 2} |-> 0],
               !.started = TRUE,
               !.message_ids = <<MsgId(1, 1)>>]
LateHist ==
    [NoHist EXCEPT !.origin = "animequiz", !.chat = 1, !.result = "completed",
                   !.cd_starts = 1,
                   !.notified = <<AnnouncedFrom>> \o
                                [i \in 1..CountdownFrom |-> CountdownFrom + 1 - i],
                   !.sent = <<0>>,
                   !.emitted = TRUE]
InitLate ==
    /\ waiting_rooms = [c \in Chats |-> None]
    /\ active_quizzes = [c \in Chats |-> None]
    /\ countdown_jobs = {}
    /\ rooms = 1 :> LateQuiz
    /\ user_stats = [u \in Users |-> NoStats]
    /\ streak_data = [u \in Users |-> NoStreak]
    /\ tasks = {[Frame("reveal_answer", "sleep", 1, 0, 0, 0, 0, 0, 0)
                   EXCEPT !.msg = MsgId(1, 1)]}
    /\ next_id = 2
    /\ hist = [r \in RoomIds |-> IF r = 1 THEN LateHist ELSE NoHist]
              @@ [k \in {LogKey(u) : u \in Users} |-> NoLog]

\* The next quiz of that chat, started by its link, with two users who press
\* ready.
NextLate ==
    \/ \E c \in MainChats, quiz_id \in QuizIds : start_quiz_in_group(c, quiz_id)
    \/ Readies(MainChats, {1, 2})
    \/ LinkResumes(BOOLEAN)
    \/ Resumes(BOOLEAN)

SpecLate == InitLate /\ [][NextLate]_vars

\* ------------------------------------------------------------- claims
Stored(r) == r \in DOMAIN rooms
ReadyCount(r) == Cardinality(rooms[r].ready_users)
HandlersOf(r) == {f \in tasks : f.kind = "ready_handler" /\ f.room = r}

\* C1: in every step, no chat ends up both in waiting_rooms and in
\* active_quizzes, and a waiting room or running quiz that exists is not
\* replaced by another one.
C1_OneSessionPerChat ==
    [][\A c \in Chats :
         /\ ~(waiting_rooms'[c] # None /\ active_quizzes'[c] # None)
         /\ (waiting_rooms[c] # None /\ waiting_rooms'[c] # None
               => waiting_rooms'[c] = waiting_rooms[c])
         /\ (active_quizzes[c] # None /\ active_quizzes'[c] # None
               => active_quizzes'[c] = active_quizzes[c])]_vars

\* C2: of two start_quiz_in_group requests for one chat whose handlers ran
\* concurrently (the later arrived while the earlier waited for its prompt),
\* at most one stores a waiting room.
C2_OneWinner ==
    \A r1 \in RoomIds, r2 \in RoomIds :
        (/\ hist[r2].origin = "start_quiz_in_group"
         /\ r1 \in hist[r2].raced)
        => ~(Stored(r1) /\ Stored(r2))

\* C4: for every waiting room, ready_handler starts the countdown at most once.
C4_CountdownOnce == \A r \in RoomIds : hist[r].cd_starts <= 1

\* C10: a waiting room with a quorum of ready users, none of whose ready
\* handlers is still running, has a countdown in flight.
C10_QuorumHasCountdown ==
    \A c \in Chats :
        LET r == waiting_rooms[c] IN
        (r # None /\ ReadyCount(r) >= Quorum /\ HandlersOf(r) = {})
        => c \in countdown_jobs

\* C3: once an answer of user u for question index q has been recorded in a
\* running session, no later answer_handler call of u for that q changes
\* the score of u in that session.
C3_AnswerIdempotent ==
    [][\A c \in Chats, u \in Users, q \in QIdx, sel \in Options :
         (/\ active_quizzes[c] # None
          /\ <<u, q>> \in hist[active_quizzes[c]].accepted
          /\ answer_handler(c, u, q, sel))
         => Get(rooms'[active_quizzes[c]].scores, u, 0)
              = Get(rooms[active_quizzes[c]].scores, u, 0)]_vars

\* C5: a reveal that wakes for a question index that is not the current one
\* of the chat's running quiz ends at once: no state changes, no reveal is
\* recorded, and the coroutine waits for nothing more.
StaleReveal(f) ==
    /\ f.kind = "reveal_answer" /\ f.pc = "sleep"
    /\ active_quizzes[f.chat] # None
    /\ rooms[active_quizzes[f.chat]].current_q # f.q

C5_StaleRevealNoOp ==
    [][\A f \in tasks :
         (StaleReveal(f) /\ f \notin tasks')
         => /\ tasks' = tasks \ {f}
            /\ UNCHANGED <<waiting_rooms, active_quizzes, countdown_jobs, rooms,
                           user_stats, streak_data, next_id, hist>>]_vars

\* A reveal timer is pending for a question the running quiz has advanced past.
C5_Witness ==
    \E f \in tasks :
        /\ StaleReveal(f)
        /\ rooms[active_quizzes[f.chat]].current_q > f.q

\* C6: a ready press of a user who is already in ready_users of the chat's
\* waiting room changes nothing (no countdown is started); the first press
\* adds the user and gives them the score they had, or 0.
C6_MarkReadyIdempotent ==
    [][\A c \in Chats, u \in Users, quiz_id \in AllQuizIds :
         (~ReadyStale(c, quiz_id) /\ ready_handler(c, u, quiz_id))
         => LET r == waiting_rooms[c] IN
            IF u \in rooms[r].ready_users
            THEN UNCHANGED vars
            ELSE /\ rooms'[r].ready_users = rooms[r].ready_users \cup {u}
                 /\ DOMAIN rooms'[r].scores = DOMAIN rooms[r].scores \cup {u}
                 /\ rooms'[r].scores[u] = Get(rooms[r].scores, u, 0)
                 /\ \A v \in DOMAIN rooms[r].scores :
                        rooms'[r].scores[v] = rooms[r].scores[v]
                 /\ UNCHANGED <<waiting_rooms, countdown_jobs>>]_vars

\* A user is ready in a waiting room (with score 0) and can press again.
C6_Witness ==
    \E c \in Chats, u \in Users :
        /\ waiting_rooms[c] # None
        /\ u \in rooms[waiting_rooms[c]].ready_users
        /\ rooms[waiting_rooms[c]].scores[u] = 0
        /\ CanAdmit

\* C7: the participants of a compiled leaderboard are the users whose
\* answer was recorded for at least one question of the session.
C7_ParticipantsAll ==
    \A r \in RoomIds :
        hist[r].result = "completed"
        => hist[r].board = {p[1] : p \in hist[r].accepted}

\* C8: whatever transport call failed, the session still progresses: a
\* waiting room with a quorum whose ready handlers have ended has its
\* countdown, and a running quiz has a coroutine that will send or reveal
\* its question.
C8_NeverStuck ==
    \A c \in Chats :
        /\ C10_QuorumHasCountdown
        /\ active_quizzes[c] # None
             => \E f \in tasks :
                    f.chat = c /\ f.kind \in {"start_countdown", "reveal_answer"}

\* C9: every session that enters Running eventually has every question
\* revealed in index order and its leaderboard compiled.
C9_RunningCompletes ==
    \A r \in RoomIds :
        (Stored(r) /\ rooms[r].started)
        ~> (/\ hist[r].result = "completed"
            /\ hist[r].revealed = [i \in 1..Len(rooms[r].questions) |-> i - 1])

\* The countdown tasks of a chat that have not ended.
CountdownTasks(c) == {f \in tasks : f.kind = "start_countdown" /\ f.chat = c}

\* C11: a chat's countdown marker is set only while a countdown task of the
\* chat is running (every way the task ends clears it), so a ready handler
\* that saw a quorum and finds no countdown task running passes the guard
\* and starts the countdown.
C11_MarkerCleared ==
    \A c \in Chats :
        /\ c \in countdown_jobs => CountdownTasks(c) # {}
        /\ \A f \in tasks :
               (/\ f.kind = "ready_handler" /\ f.chat = c
                /\ f.count >= Quorum
                /\ CountdownTasks(c) = {})
               => CountdownDue(f.count, c)

\* A countdown of the chat has ended and a ready handler of a later waiting
\* room, having seen a quorum, is about to test the marker.
C11_Witness ==
    \E f \in tasks, r \in RoomIds :
        /\ f.kind = "ready_handler" /\ f.count >= Quorum
        /\ r # f.room /\ hist[r].chat = f.chat /\ hist[r].cd_starts >= 1
        /\ waiting_rooms[f.chat] = f.room
        /\ CountdownTasks(f.chat) = {}

\* "starting in N" for N = 5, 4, 3, 2, 1
CountdownSequence == [i \in 1..CountdownFrom |-> CountdownFrom + 1 - i]

IsPrefix(s, t) == Len(s) <= Len(t) /\ \A i \in 1..Len(s) : s[i] = t[i]

\* C12: the "starting in N" notifications requested for a room are, in order,
\* N = 5, 4, 3, 2, 1 and nothing else, and the room is running only when all
\* five have been requested.
C12_FiveNotifications ==
    \A r \in RoomIds :
        /\ IsPrefix(hist[r].notified, CountdownSequence)
        /\ (Stored(r) /\ rooms[r].started) => hist[r].notified = CountdownSequence

\* While a countdown task is between its first edit and start_quiz, the
\* chat has a waiting room, and the chat has no second countdown task:
\* nothing but start_quiz removes a key of waiting_rooms.
CountdownHasRoom ==
    \A f \in tasks :
        (f.kind = "start_countdown" /\ f.pc = "sleep")
        => /\ waiting_rooms[f.chat] # None
           /\ CountdownTasks(f.chat) = {f}

\* The countdown of the chat's waiting room has started and not yet ended.
CountdownInFlight(c) ==
    \E f \in tasks :
        /\ f.kind = "start_countdown" /\ f.pc = "sleep"
        /\ f.chat = c /\ f.room = waiting_rooms[c]

\* C14: a ready press that arrives while the countdown of the chat's waiting
\* room is in flight adds nobody to ready_users, and the room enters the
\* running quiz with as many ready users as it had when its countdown started.
C14_NoLateJoin ==
    [][\A c \in Chats :
         (waiting_rooms[c] # None /\ CountdownInFlight(c))
         => LET r == waiting_rooms[c] IN
            /\ \A u \in Users, quiz_id \in AllQuizIds :
                   ready_handler(c, u, quiz_id)
                   => rooms'[r].ready_users = rooms[r].ready_users
            /\ \A f \in tasks :
                   (f.chat = c /\ f.room = r /\ start_quiz(f))
                   => Cardinality(rooms'[r].ready_users) = f.count]_vars

\* C15: start_quiz puts the chat's waiting room into active_quizzes as a
\* running quiz at question 0 with the room's quiz id, questions, ready users
\* and scores, and takes it out of waiting_rooms; a running quiz stays
\* started and is never a waiting room again.
C15_WaitingToRunning ==
    [][/\ \A f \in tasks :
             (f.kind = "start_countdown" /\ waiting_rooms[f.chat] # None /\ start_quiz(f))
             => LET c == f.chat
                    r == waiting_rooms[c] IN
                /\ active_quizzes'[c] = r
                /\ waiting_rooms'[c] = None
                /\ rooms'[r].started /\ rooms'[r].current_q = 0
                /\ rooms'[r].quiz_id = rooms[r].quiz_id
                /\ rooms'[r].questions = rooms[r].questions
                /\ rooms'[r].ready_users = rooms[r].ready_users
                /\ rooms'[r].scores = rooms[r].scores
       /\ \A r \in RoomIds :
             (Stored(r) /\ rooms[r].started)
             => /\ rooms'[r].started
                /\ \A c \in Chats : waiting_rooms'[c] # r]_vars

\* A room with ready users has become the chat's running quiz.
C15_Witness ==
    \E c \in Chats :
        /\ active_quizzes[c] # None
        /\ waiting_rooms[c] = None
        /\ rooms[active_quizzes[c]].started
        /\ Cardinality(rooms[active_quizzes[c]].ready_users) >= Quorum

\* C16: an answer_handler call for the chat's running quiz by a user not yet
\* in the ledger for the question records the user in the ledger and adds
\* exactly 1 to the user's score when the selected option is the question's
\* answer, and nothing otherwise.
C16_AnswerApplied ==
    [][\A c \in Chats, u \in Users, q \in QIdx, sel \in Options :
         (/\ active_quizzes[c] # None
          /\ q < Len(rooms[active_quizzes[c]].questions)
          /\ u \notin Get(rooms[active_quizzes[c]].answered, q, {})
          /\ answer_handler(c, u, q, sel))
         => LET s == active_quizzes[c]
                point == IF sel = rooms[s].questions[q + 1] THEN 1 ELSE 0 IN
            /\ u \in Get(rooms'[s].answered, q, {})
            /\ Get(rooms'[s].scores, u, 0) = Get(rooms[s].scores, u, 0) + point]_vars

\* C17: an answer_handler call whose question index is not the running
\* quiz's current question, or whose question has already been revealed,
\* changes neither the scores nor the ledger of the quiz.
C17_OnlyCurrentQuestion ==
    [][\A c \in Chats, u \in Users, q \in QIdx, sel \in Options :
         (/\ active_quizzes[c] # None
          /\ \/ q # rooms[active_quizzes[c]].current_q
             \/ Contains(hist[active_quizzes[c]].revealed, q)
          /\ answer_handler(c, u, q, sel))
         => LET s == active_quizzes[c] IN
            /\ rooms'[s].scores = rooms[s].scores
            /\ rooms'[s].answered = rooms[s].answered]_vars

\* C18: an answer_handler call for a chat that has no running quiz changes
\* no state.
C18_NoQuizNoChange ==
    [][\A c \in Chats, u \in Users, q \in QIdx, sel \in Options :
         (active_quizzes[c] = None /\ answer_handler(c, u, q, sel))
         => UNCHANGED vars]_vars

\* A question message with its buttons exists in a chat whose quiz is over,
\* and a user who answered nothing yet can press one.
C18_Witness ==
    \E c \in Chats, u \in Users :
        /\ active_quizzes[c] = None
        /\ Buttons(c) # {}
        /\ user_stats[u].state = "absent"

\* C19: a ready press for a chat with no waiting room, or with a quiz id
\* other than that of the chat's waiting room, changes no state: no user is
\* added, no score is set, the countdown marker is untouched and no
\* coroutine is left to start a countdown.
C19_StaleReadyAbsorbed ==
    [][\A c \in Chats, u \in Users, quiz_id \in AllQuizIds :
         (/\ \/ waiting_rooms[c] = None
             \/ rooms[waiting_rooms[c]].quiz_id # quiz_id
          /\ ready_handler(c, u, quiz_id))
         => UNCHANGED vars]_vars

\* A chat has a waiting room and a ready button of another quiz can be
\* pressed in it by a user who is not ready.
C19_Witness ==
    \E c \in Chats, u \in Users, quiz_id \in AllQuizIds :
        /\ waiting_rooms[c] # None
        /\ rooms[waiting_rooms[c]].quiz_id # quiz_id
        /\ u \notin rooms[waiting_rooms[c]].ready_users
        /\ CanAdmit

\* A command or link that asks to start a quiz in chat c arrives.
StartRequest(c) ==
    \/ \E quiz_id \in QuizIds : start_quiz_in_group(c, quiz_id)
    \/ \E u \in Users, draw \in QuickDraws : quickquiz(c, u, draw)
    \/ \E u \in Users : dailychallenge(c, u)
    \/ \E u \in Users, draw \in AnimeDraws : animequiz(c, u, draw)

\* C20: a request to start a quiz that arrives in a chat which already has a
\* waiting or running session is refused on arrival (it ends "rejected" and
\* leaves no coroutine that could store a room later), and the registries and
\* every stored room (quiz id, ready users, scores, questions, prompt
\* message reference) stay as they were.
C20_StartConflict ==
    [][\A c \in Chats :
         (AlreadyActive(c) /\ StartRequest(c))
         => /\ hist'[next_id].result = "rejected"
            /\ UNCHANGED <<waiting_rooms, active_quizzes, rooms, tasks>>]_vars

\* How often x occurs in a list.
Occurrences(seq, x) == Cardinality({i \in 1..Len(seq) : seq[i] = x})

\* C21: once the latest five (or more) accepted answers of a user were all
\* correct, the user's achievements hold the "5 Streak" entry exactly once;
\* and an accepted incorrect answer leaves the user's current streak at 0
\* and the achievements as they were.
C21_FiveStreak ==
    [][\A u \in Users :
         /\ hist'[LogKey(u)].run >= MilestoneA
            => Occurrences(user_stats'[u].achievements, MilestoneA) = 1
         /\ score_answer(u, FALSE)
            => /\ streak_data'[u].current = 0
               /\ user_stats'[u].achievements = user_stats[u].achievements]_vars

Max(a, b) == IF a > b THEN a ELSE b

\* C22: every accepted answer adds 1 to the user's questions_answered; a
\* correct one adds 1 to correct_answers, total_score and the current streak
\* and makes best_streak the larger of best_streak and the new streak; an
\* incorrect one sets the current streak to 0; and for every user
\* best_streak >= current streak and correct_answers <= questions_answered.
C22_ScoringRules ==
    [][\A u \in Users :
         /\ hist'[LogKey(u)].answers = hist[LogKey(u)].answers + 1
            => /\ user_stats'[u].questions_answered = user_stats[u].questions_answered + 1
               /\ IF hist'[LogKey(u)].run > 0
                  THEN /\ user_stats'[u].correct_answers = user_stats[u].correct_answers + 1
                       /\ user_stats'[u].total_score = user_stats[u].total_score + 1
                       /\ streak_data'[u].current = streak_data[u].current + 1
                       /\ user_stats'[u].best_streak =
                              Max(user_stats[u].best_streak, streak_data'[u].current)
                  ELSE streak_data'[u].current = 0
         /\ user_stats'[u].best_streak >= streak_data'[u].current
         /\ user_stats'[u].correct_answers <= user_stats'[u].questions_answered]_vars

Milestones == {MilestoneA, MilestoneB, MilestoneC}

\* C23: a user's achievements change only by appending the milestone that
\* the streak has just reached through an increment by one, and no milestone
\* is ever listed twice.
C23_MilestonesOnce ==
    [][\A u \in Users :
         /\ user_stats'[u].achievements # user_stats[u].achievements
            => /\ streak_data'[u].current = streak_data[u].current + 1
               /\ streak_data'[u].current \in Milestones
               /\ user_stats'[u].achievements =
                      Append(user_stats[u].achievements, streak_data'[u].current)
         /\ \A m \in Milestones : Occurrences(user_stats'[u].achievements, m) <= 1]_vars

\* A user is at streak 5 for the second time, after a reset: ten of the
\* eleven accepted answers were correct.
C23_Witness ==
    \E u \in Users :
        /\ streak_data[u].current = MilestoneA
        /\ user_stats[u].questions_answered = 2 * MilestoneA + 1
        /\ user_stats[u].correct_answers = 2 * MilestoneA
        /\ Occurrences(user_stats[u].achievements, MilestoneA) = 1

\* The leaderboards that were sent.
Boards == {r \in RoomIds : hist[r].emitted}
NonIncreasing(rows) == \A i, j \in 1..Len(rows) : i < j => rows[i][2] >= rows[j][2]

\* C24: the ranking of every leaderboard sent lists its rows in
\* non-increasing order of score, each row with the user's session score.
C24_RankingOrdered ==
    \A r \in Boards :
        /\ NonIncreasing(hist[r].ranking)
        /\ \A i \in 1..Len(hist[r].ranking) :
              hist[r].ranking[i][2] = Get(rooms[r].scores, hist[r].ranking[i][1], 0)

\* Scores {user 1: 3, user 2: 5, user 3: 1} were ranked 2, 1, 3.
C24_Witness ==
    \E r \in Boards :
        /\ rooms[r].scores = <<3, 5, 1>>
        /\ hist[r].ranking = <<<<2, 5>>, <<1, 3>>, <<3, 1>>>>

\* C25: when a leaderboard has been compiled, every participant whose
\* lookup returned in the statistics loop has had both a statistics update
\* and a game-session record sent to the database.
C25_StatsAndSession ==
    \A r \in Boards : \A u \in hist[r].known :
        u \in hist[r].stats /\ u \in hist[r].sessions

\* The users listed in a ranking.
Ranked(rows) == {rows[i][1] : i \in 1..Len(rows)}
\* The leaderboards whose compilation is over.
Compiled == {r \in RoomIds : /\ hist[r].result = "completed"
                             /\ ~\E f \in tasks : f.kind = "show_leaderboard" /\ f.room = r}

\* C26: when the compilation of a leaderboard is over, the leaderboard has
\* been sent, its ranking lists exactly the participants whose lookup
\* returned (a failed lookup removes that participant and nobody else), and
\* the quiz is in neither registry.
C26_LookupFailureIsolated ==
    \A r \in Compiled :
        /\ hist[r].emitted
        /\ hist[r].named \subseteq hist[r].board
        /\ Ranked(hist[r].ranking) = hist[r].named
        /\ \A c \in Chats : active_quizzes[c] # r /\ waiting_rooms[c] # r

\* The lookup of one of three participants failed; the other two are ranked.
C26_Witness ==
    \E r \in Compiled :
        /\ Cardinality(hist[r].board) = 3
        /\ Cardinality(hist[r].board \ hist[r].named) = 1
        /\ Len(hist[r].ranking) = 2

\* A chat's session state: its registry entries, the room and quiz objects
\* they refer to (ready users, scores, current question index, answer
\* ledger) and its countdown marker.
SessionState(c) ==
    <<waiting_rooms[c], active_quizzes[c], c \in countdown_jobs,
      IF waiting_rooms[c] # None THEN rooms[waiting_rooms[c]] ELSE None,
      IF active_quizzes[c] # None THEN rooms[active_quizzes[c]] ELSE None>>

\* An event of chat c is processed: a start request, a ready or answer
\* press, or a coroutine of the chat that goes on after a timer or a
\* transport call which returned or raised.
EventOf(c) ==
    \/ \E quiz_id \in QuizIds : start_quiz_in_group(c, quiz_id)
    \/ \E u \in Users, quiz_id \in AllQuizIds : ready_handler(c, u, quiz_id)
    \/ \E u \in Users, q \in QIdx, sel \in Options : answer_handler(c, u, q, sel)
    \/ \E f \in {g \in tasks : g.chat = c} :
          \/ \E ok \in BOOLEAN :
                \/ start_quiz_in_group_resume(f, ok)
                \/ ready_handler_resume(f, ok)
                \/ start_quiz_resume(f, ok)
                \/ start_quiz_question_resume(f, ok)
                \/ reveal_answer_question_resume(f, ok)
          \/ start_countdown(f)
          \/ start_countdown_tick(f)
          \/ start_quiz(f)
          \/ reveal_answer(f)
          \/ reveal_answer_resume(f)
          \/ reveal_answer_next(f)
          \/ show_leaderboard_resume(f, BOOLEAN)

\* C27: a step that changes the session state of a chat is not the
\* processing of an event of another chat, whether its calls returned or
\* raised.
C27_ChatsIndependent ==
    [][\A b \in Chats :
         SessionState(b)' # SessionState(b)
         => \A a \in Chats \ {b} : ~EventOf(a)]_vars

\* Both chats have a running quiz with a recorded answer while a countdown
\* marker or a coroutine of the other chat is around.
C27_Witness ==
    /\ \A c \in Chats : /\ active_quizzes[c] # None
                         /\ rooms[active_quizzes[c]].answered # EmptyDict
    /\ \A c \in Chats : \E f \in tasks : f.chat = c

\* The answers of the scenario: both users answered both questions.
AllAnswered == {1, 2} \X {0, 1}
\* The chat has no session.
NoSession(c) == waiting_rooms[c] = None /\ active_quizzes[c] = None

\* C28: in the play of one 2-question quiz that users 1 and 2 joined, the
\* quiz starts only when the countdown has reached 1; once question 0 is
\* revealed with both answers in, the scores are 1 for user 1 and 0 for user
\* 2; a leaderboard sent after both answered both questions ranks user 1
\* above user 2 and the chat has no session then; and a room with both
\* users ready leads to the leaderboard and to a chat without session.
C28_EndToEnd ==
    /\ [](\A r \in RoomIds : Stored(r) =>
            /\ rooms[r].started
               => /\ hist[r].notified # <<>>
                  /\ hist[r].notified[Len(hist[r].notified)] = 1
            /\ (/\ hist[r].revealed = <<0>> /\ hist[r].sent = <<0>>
                /\ {<<1, 0>>, <<2, 0>>} \subseteq hist[r].accepted)
               => /\ Get(rooms[r].scores, 1, 0) = 1
                  /\ Get(rooms[r].scores, 2, 0) = 0
            /\ (hist[r].emitted /\ hist[r].accepted = AllAnswered)
               => /\ hist[r].ranking = <<<<1, 2>>, <<2, 0>>>>
                  /\ NoSession(hist[r].chat))
    /\ \A r \in RoomIds :
          (Stored(r) /\ rooms[r].ready_users = {1, 2})
          ~> (hist[r].emitted /\ NoSession(hist[r].chat))

\* The scenario's leaderboard has been sent.
C28_Witness ==
    \E r \in RoomIds :
        /\ hist[r].emitted
        /\ hist[r].accepted = AllAnswered
        /\ hist[r].ranking = <<<<1, 2>>, <<2, 0>>>>
        /\ NoSession(hist[r].chat)

NoRepeat(seq) == \A i, j \in 1..Len(seq) : seq[i] = seq[j] => i = j
\* The session whose question message a reveal timer was created for.
TimerSession(f) == f.msg \div 10

\* C29: no session has a question index sent twice or revealed twice, and a
\* reveal timer that takes effect does so on the session it was created for.
C29_OncePerQuestion ==
    /\ \A r \in RoomIds : NoRepeat(hist[r].sent) /\ NoRepeat(hist[r].revealed)
    /\ \A f \in tasks :
          (f.kind = "reveal_answer" /\ f.pc # "sleep") => f.room = TimerSession(f)

\* C30: every started quiz has at least Quorum ready users.
C30_RunningHasQuorum ==
    \A r \in RoomIds : (Stored(r) /\ rooms[r].started) => ReadyCount(r) >= Quorum

\* The question indices of a session that were sent: those revealed and the
\* one open.
Opened(r) == {hist[r].sent[i] : i \in 1..Len(hist[r].sent)}

\* C31: in a started quiz no user's score exceeds the number of questions
\* of the quiz, nor the number of question indices revealed or open.
C31_ScoreBounded ==
    \A r \in RoomIds : (Stored(r) /\ rooms[r].started) =>
        \A u \in DOMAIN rooms[r].scores :
            /\ rooms[r].scores[u] <= Len(rooms[r].questions)
            /\ rooms[r].scores[u] <= Cardinality(Opened(r))

\* A started quiz.
Running(r, R) == r \in DOMAIN R /\ R[r].started

\* C32: a quiz starts at question index 0; the index of a started quiz
\* changes only by +1 and only when a reveal of the current index of that
\* quiz ends its pause; and the index of a started quiz is always at least 0
\* and less than the number of its questions.
C32_IndexAdvances ==
    [][\A r \in RoomIds :
          /\ (Running(r, rooms') /\ ~Running(r, rooms)) => rooms'[r].current_q = 0
          /\ (Running(r, rooms) /\ rooms'[r].current_q # rooms[r].current_q) =>
                /\ rooms'[r].current_q = rooms[r].current_q + 1
                /\ \E f \in tasks \ tasks' :
                      /\ f.kind = "reveal_answer" /\ f.pc = "pause"
                      /\ f.room = r /\ f.q = rooms[r].current_q
          /\ Running(r, rooms') =>
                /\ 0 <= rooms'[r].current_q
                /\ rooms'[r].current_q < Len(rooms'[r].questions)]_vars

\* The questions of session r that user u had an answer accepted for.
AnsweredBy(r, u) == {p[2] : p \in {a \in hist[r].accepted : a[1] = u}}

\* C33: the correct-answer increment sent to the database for a participant
\* of a compiled leaderboard equals the participant's score in the quiz, and
\* the questions-answered increment equals the number of questions the
\* participant had an answer accepted for.
C33_PersistedCounts ==
    \A r \in Boards : \A u \in DOMAIN hist[r].persisted :
        /\ hist[r].persisted[u].correct_answers = Get(rooms[r].scores, u, 0)
        /\ hist[r].persisted[u].questions_answered = Cardinality(AnsweredBy(r, u))

\* The compilation of session r's leaderboard has started: the quiz was popped.
Popped(r) == hist[r].result = "completed"
\* A reveal of session r about to run in its chat: the timer of one of its
\* question messages ends its sleep, or a reveal of its last question is
\* about to call show_leaderboard.
Further(f, r) ==
    /\ f.kind = "reveal_answer" /\ f.chat = hist[r].chat
    /\ \/ f.pc = "sleep" /\ TimerSession(f) = r
       \/ /\ f.pc = "edit_message_text" /\ f.room = r
          /\ f.q + 1 >= Len(rooms[r].questions)

\* What was sent and stored for a leaderboard.
Board(h) == <<h.board, h.named, h.known, h.ranking, h.emitted, h.stats,
              h.sessions, h.persisted>>

\* C34: a quiz is popped from active_quizzes in the step that starts the
\* compilation of its leaderboard and is never registered again; no second
\* compilation is started for it, and once its leaderboard was sent nothing
\* more is sent or stored for it; a reveal or leaderboard call of the quiz
\* that runs after the pop finds no quiz in the chat and changes nothing.
C34_LeaderboardOnce ==
    [][\A r \in RoomIds :
          /\ (Popped(r)' /\ ~Popped(r)) =>
                \E c \in Chats : active_quizzes[c] = r /\ active_quizzes'[c] = None
          /\ Popped(r) =>
                /\ \A c \in Chats : active_quizzes'[c] # r
                /\ \A f \in tasks' \ tasks : ~(f.kind = "show_leaderboard" /\ f.room = r)
                /\ hist[r].emitted => Board(hist'[r]) = Board(hist[r])
                /\ \A f \in tasks \ tasks' : Further(f, r) =>
                      /\ active_quizzes[f.chat] = None
                      /\ tasks' = tasks \ {f}
                      /\ UNCHANGED <<waiting_rooms, active_quizzes, countdown_jobs,
                                     rooms, user_stats, streak_data, next_id, hist>>]_vars
====
